---- MODULE Spec2Model ----
(***************************************************************************)
(* Flashcard generators of the-notewriter test data:                       *)
(*   internal/core/testdata/TestParser/en-irregular-verbs.py               *)
(*   internal/core/testdata/TestParser/expression.py                       *)
(* Both scripts define the same slugify(value) and loop over an in-source  *)
(* table of dicts, printing one flashcard block per dict.                  *)
(*                                                                         *)
(* Text is modelled as a sequence of Unicode code points.                  *)
(***************************************************************************)
EXTENDS Integers, Sequences, FiniteSets, TLC

\* ---------------------------------------------------------------- bounds
MaxLen == 3
MaxCalls == 2
MaxCatalog == 2

\* ------------------------------------------------------------ characters
Hyphen == 45
Underscore == 95

\* B e 1 - _ space E-acute and the ideograph U+4E2D
Alphabet == {66, 101, 49, 45, 95, 32, 201, 20013}

Texts == UNION {[1..n -> Alphabet] : n \in 0..MaxLen}

IsAscii(c) == c < 128
IsUpper(c) == c \in 65..90
IsLower(c) == c \in 97..122
IsDigit(c) == c \in 48..57
IsAlnum(c) == IsUpper(c) \/ IsLower(c) \/ IsDigit(c)

RECURSIVE Flatten(_)
Flatten(ss) == IF ss = <<>> THEN <<>> ELSE Head(ss) \o Flatten(Tail(ss))

\* unicodedata.normalize('NFKD', value): compatibility decomposition, code
\* point by code point; ASCII and the ideograph have no decomposition.
NFKDChar(c) ==
  CASE c = 201 -> <<69, 769>>
    [] c = 233 -> <<101, 769>>
    [] c = 234 -> <<101, 770>>
    [] OTHER -> <<c>>

NFKD(s) == Flatten([k \in 1..Len(s) |-> NFKDChar(s[k])])

\* .encode('ascii', 'ignore').decode('ascii'): unencodable code points vanish
EncodeAsciiIgnore(s) == SelectSeq(s, IsAscii)

\* variant: the call of .lower() left out
LowerNoop(s) == s

\* .lower() on an ASCII-only str
Lower(s) == [k \in 1..Len(s) |-> IF IsUpper(s[k]) THEN s[k] + 32 ELSE s[k]]

\* line 6 of slugify
Normalize(value) == Lower(EncodeAsciiIgnore(NFKD(value)))

\* variant: the class \W alone, underscore kept as a word character
InClassNoUnderscore(c) == ~(IsAlnum(c) \/ c = Underscore)

\* the character class [\W_] on ASCII text: everything but letters and digits
InClass(c) == ~(IsAlnum(c) \/ c = Underscore) \/ c = Underscore

\* end of the greedy match of [\W_]+ starting at position i (s[i] in class)
RECURSIVE RunEnd(_, _)
RunEnd(s, i) ==
  IF i < Len(s) /\ InClass(s[i + 1]) THEN RunEnd(s, i + 1) ELSE i

\* re.sub scanning left to right from position i
RECURSIVE SubFrom(_, _)
SubFrom(s, i) ==
  IF i > Len(s) THEN <<>>
  ELSE IF InClass(s[i]) THEN <<Hyphen>> \o SubFrom(s, RunEnd(s, i) + 1)
  ELSE <<s[i]>> \o SubFrom(s, i + 1)

\* variant: the pattern [\W_]{1,2}, a match never longer than two characters
RECURSIVE SubFromPairs(_, _)
SubFromPairs(s, i) ==
  IF i > Len(s) THEN <<>>
  ELSE IF InClass(s[i])
       THEN <<Hyphen>> \o SubFromPairs(s, IF i < Len(s) /\ InClass(s[i + 1]) THEN i + 2 ELSE i + 1)
  ELSE <<s[i]>> \o SubFromPairs(s, i + 1)

ReSubPairs(s) == SubFromPairs(s, 1)

\* line 7 of slugify: re.sub(r'[\W_]+', '-', value)
ReSub(s) == SubFrom(s, 1)

slugify(value) == ReSub(Normalize(value))

\* ------------------------------------------------------- the two scripts
Programs == {"verbs", "expressions"}

\* "em-irregular-verb-"
SlugPrefix ==
  <<101, 109, 45, 105, 114, 114, 101, 103, 117, 108, 97, 114, 45, 118, 101, 114, 98, 45>>

\* variant: the verb template slugs the bare base form
SlugSourceTextBare(p, text) == text

\* argument of slugify in the `@slug: ...` line of each template
SlugSourceText(p, text) == IF p = "verbs" THEN SlugPrefix \o text ELSE text

VARIABLES
  title,     \* text a slug is derived from (slugify runs)
  sl,        \* per script: the slugify activation on title
  program,   \* script being run (compile pass)
  catalog,   \* its table: IRREGULAR_VERBS or EXPRESSIONS
  idx,       \* position of the for loop in the table
  out,       \* blocks printed so far
  pc         \* "loop", "done", or the uncaught exception

vars == <<title, sl, program, catalog, idx, out, pc>>
passVars == <<program, catalog, idx, out, pc>>
slugVars == <<title, sl>>

\* ------------------------------------------------- slugify, step by step
Idle == [pc |-> "idle", arg |-> <<>>, value |-> <<>>, rets |-> <<>>]

SlugInit ==
  /\ title \in Texts
  /\ sl = [p \in Programs |-> Idle]
  /\ program = "verbs" /\ catalog = <<>> /\ idx = 1 /\ out = <<>> /\ pc = "idle"

\* the template calls slugify on its slug source text
Call(p) ==
  /\ sl[p].pc = "idle"
  /\ sl' = [sl EXCEPT ![p] = [pc |-> "line6",
                              arg |-> SlugSourceText(p, title),
                              value |-> SlugSourceText(p, title),
                              rets |-> <<>>]]
  /\ UNCHANGED <<title, passVars>>

\* value = unicodedata.normalize(...).encode(...).decode(...).lower()
Line6(p) ==
  /\ sl[p].pc = "line6"
  /\ sl' = [sl EXCEPT ![p].pc = "line7", ![p].value = Normalize(sl[p].value)]
  /\ UNCHANGED <<title, passVars>>

\* return re.sub(r'[\W_]+', '-', value)
Line7(p) ==
  /\ sl[p].pc = "line7"
  /\ sl' = [sl EXCEPT ![p].pc = "ret",
                      ![p].rets = Append(sl[p].rets, ReSub(sl[p].value))]
  /\ UNCHANGED <<title, passVars>>

\* slugify applied to its own result
Recall(p) ==
  /\ sl[p].pc = "ret"
  /\ Len(sl[p].rets) < MaxCalls
  /\ LET r == sl[p].rets[Len(sl[p].rets)]
     IN sl' = [sl EXCEPT ![p].pc = "line6", ![p].arg = r, ![p].value = r]
  /\ UNCHANGED <<title, passVars>>

SlugNext == \E p \in Programs : Call(p) \/ Line6(p) \/ Line7(p) \/ Recall(p)

SlugSpec == SlugInit /\ [][SlugNext]_vars

\* ------------------------------------------------------ the compile pass
\* "B", "b", " b" and a title made of one ideograph
TitleTexts == {<<66>>, <<98>>, <<32, 98>>, <<20013>>}

VerbKeys == {"base", "past_tense", "past_participle"}
ExpressionKeys == {"en-en", "fr-fr"}

Keys(p) == IF p = "verbs" THEN VerbKeys ELSE ExpressionKeys

TitleKey(p) == IF p = "verbs" THEN "base" ELSE "en-en"

\* "was", "had"; "been"; "etre" with a circumflex, "pris"
FieldTexts(key) ==
  CASE key \in {"base", "en-en"} -> TitleTexts
    [] key = "past_tense" -> {<<119, 97, 115>>, <<104, 97, 100>>}
    [] key = "past_participle" -> {<<98, 101, 101, 110>>}
    [] key = "fr-fr" -> {<<234, 116, 114, 101>>, <<112, 114, 105, 115>>}

\* dict literals of a table; a dict may lack any of the keys
Dicts(p) ==
  UNION {{d \in [K -> UNION {FieldTexts(k) : k \in K}] :
            \A k \in K : d[k] \in FieldTexts(k)} : K \in SUBSET Keys(p)}

Catalogs(p) == UNION {[1..n -> Dicts(p)] : n \in 0..MaxCatalog}

\* every subscript of the template finds its key
WellFormed(p, d) == Keys(p) \subseteq DOMAIN d

\* variant: the slug also covers the field printed after the separator
SlugSourceWithBack(p, d) ==
  SlugSourceText(p, d[TitleKey(p)])
    \o (IF p = "verbs" THEN d["past_tense"] ELSE d["fr-fr"])

SlugSource(p, d) == SlugSourceText(p, d[TitleKey(p)])

\* the backquote, which a string of this language cannot hold
Backtick == <<96>>

\* the f-string of each script, as its literal and interpolated segments
Render(p, d) ==
  IF p = "verbs"
  THEN << "\n## Flashcard: ", d["base"],
          "\n\n", Backtick, "@slug: ", slugify(SlugSource(p, d)), Backtick,
          "\n\n(Irregular Verb) ", d["base"],
          "\n\n---\n\n", d["past_tense"], " / ", d["past_participle"], "\n" >>
  ELSE << "\n## Flashcard: ", d["en-en"],
          "\n\n", Backtick, "@slug: ", slugify(SlugSource(p, d)), Backtick,
          "\n\n(Expression) **Translate**\n\n_<span class=\"foreign\">", d["en-en"],
          "</span>_\n\n---\n\n_<span class=\"native\">", d["fr-fr"],
          "</span>_\n\n" >>

BlockTitle(b) == b[2]
BlockSlug(b) == b[6]

Init ==
  /\ program \in Programs
  /\ catalog \in Catalogs(program)
  /\ idx = 1
  /\ out = <<>>
  /\ pc = "loop"
  /\ title = <<>>
  /\ sl = [p \in Programs |-> Idle]

\* variant: the block goes in front of the ones already printed
EmitBlockFirst ==
  /\ pc = "loop"
  /\ idx <= Len(catalog)
  /\ WellFormed(program, catalog[idx])
  /\ out' = <<Render(program, catalog[idx])>> \o out
  /\ idx' = idx + 1
  /\ UNCHANGED <<program, catalog, pc, slugVars>>

\* one iteration of the for loop: the f-string is built, then printed
EmitBlock ==
  /\ pc = "loop"
  /\ idx <= Len(catalog)
  /\ WellFormed(program, catalog[idx])
  /\ out' = Append(out, Render(program, catalog[idx]))
  /\ idx' = idx + 1
  /\ UNCHANGED <<program, catalog, pc, slugVars>>

\* variant: a dict lacking a key is passed over
SkipMalformed ==
  /\ pc = "loop"
  /\ idx <= Len(catalog)
  /\ ~WellFormed(program, catalog[idx])
  /\ idx' = idx + 1
  /\ UNCHANGED <<program, catalog, out, pc, slugVars>>

\* a subscript of the f-string raises KeyError before print is called;
\* nothing catches it and the script ends
RaiseKeyError ==
  /\ pc = "loop"
  /\ idx <= Len(catalog)
  /\ ~WellFormed(program, catalog[idx])
  /\ pc' = "KeyError"
  /\ UNCHANGED <<program, catalog, idx, out, slugVars>>

\* the loop is exhausted
Finish ==
  /\ pc = "loop"
  /\ idx > Len(catalog)
  /\ pc' = "done"
  /\ UNCHANGED <<program, catalog, idx, out, slugVars>>

Next == EmitBlock \/ RaiseKeyError \/ Finish

Spec == Init /\ [][Next]_vars

\* ------------------------------------------------------------ properties
Last(s) == s[Len(s)]

\* ^[a-z0-9]+(-[a-z0-9]+)*$
MatchesSlugGrammar(s) ==
  /\ s # <<>>
  /\ \A k \in 1..Len(s) : IsLower(s[k]) \/ IsDigit(s[k]) \/ s[k] = Hyphen
  /\ s[1] # Hyphen
  /\ Last(s) # Hyphen
  /\ \A k \in 1..(Len(s) - 1) : ~(s[k] = Hyphen /\ s[k + 1] = Hyphen)

\* C1: every slug that slugify returns is either empty (the degenerate
\* case, left to DegenerateSlugError) or matches ^[a-z0-9]+(-[a-z0-9]+)*$:
\* it has no uppercase letter, no non-ASCII character, no leading, trailing
\* or doubled hyphen.
SlugCharsetInvariant ==
  \A p \in Programs :
    sl[p].pc = "ret" => sl[p].rets[1] = <<>> \/ MatchesSlugGrammar(sl[p].rets[1])

HasTitle(d) == TitleKey(program) \in DOMAIN d

HasDuplicateSlugs ==
  \E j, k \in 1..Len(catalog) :
    /\ j < k
    /\ HasTitle(catalog[j]) /\ HasTitle(catalog[k])
    /\ slugify(SlugSource(program, catalog[j])) = slugify(SlugSource(program, catalog[k]))

\* C2: when two records of the catalog have equal slugs, the pass fails
\* with DuplicateSlugError before any block is emitted: the output is empty
\* and the pass never completes.
DuplicateSlugFailsBeforeOutput ==
  HasDuplicateSlugs => out = <<>> /\ pc # "done"

\* C3: no block is emitted for a record whose non-empty slug source
\* slugs to the empty string; the output holds no block with an empty slug.
NoEmptySlugBlock ==
  \A k \in 1..Len(out) :
    SlugSource(program, catalog[k]) # <<>> => BlockSlug(out[k]) # <<>>

\* C4: at every point of the pass the output is the renderings of a prefix
\* of the catalog in insertion order, and a completed pass has emitted one
\* block per record.
OrderPreserved ==
  /\ Len(out) <= Len(catalog)
  /\ \A k \in 1..Len(out) :
       WellFormed(program, catalog[k]) /\ out[k] = Render(program, catalog[k])
  /\ pc = "done" => Len(out) = Len(catalog)

OrderPreservedWitness ==
  /\ pc = "done"
  /\ Len(out) = 2
  /\ out[1] # out[2]

\* C5: a record lacking a key of its kind gets no block, no record after it
\* gets a block, and the pass ends in the error instead of completing.
MalformedAborts ==
  /\ \A k \in 1..Len(catalog) :
       ~WellFormed(program, catalog[k]) => Len(out) < k /\ idx <= k /\ pc # "done"
  /\ pc = "KeyError" => ~WellFormed(program, catalog[idx]) /\ Len(out) = idx - 1

MalformedAbortsWitness ==
  /\ pc = "KeyError"
  /\ idx = 1
  /\ Len(catalog) = 2
  /\ WellFormed(program, catalog[2])
  /\ out = <<>>

\* C6: slugify applied to a slug returns that slug.
SlugIdempotent ==
  \A p \in Programs :
    \A k \in 1..(Len(sl[p].rets) - 1) : sl[p].rets[k + 1] = sl[p].rets[k]

SlugIdempotentWitness ==
  /\ sl["expressions"].pc = "ret"
  /\ Len(sl["expressions"].rets) = 2
  /\ sl["expressions"].rets[1] # <<>>
  /\ sl["expressions"].rets[1][1] = Hyphen
  /\ Last(sl["expressions"].rets[1]) = Hyphen

\* C7: for one title, the slug of the verb template and the slug of the
\* expression template differ.
KindPrefixDistinct ==
  (sl["verbs"].rets # <<>> /\ sl["expressions"].rets # <<>>)
    => sl["verbs"].rets[1] # sl["expressions"].rets[1]

KindPrefixDistinctWitness ==
  /\ sl["verbs"].rets # <<>>
  /\ sl["expressions"].rets # <<>>
  /\ title # <<>>
  /\ title[1] = Hyphen
  /\ sl["expressions"].rets[1] = <<Hyphen, 101>>

\* C8: two emitted blocks with the same title carry the same slug, whatever
\* their other fields and their positions.
SlugDependsOnTitleOnly ==
  \A j, k \in 1..Len(out) :
    BlockTitle(out[j]) = BlockTitle(out[k]) => BlockSlug(out[j]) = BlockSlug(out[k])

SlugDependsOnTitleOnlyWitness ==
  /\ Len(out) = 2
  /\ BlockTitle(out[1]) = BlockTitle(out[2])
  /\ out[1] # out[2]

\* every character outside [a-zA-Z0-9] that follows another one is deleted,
\* every other one becomes a hyphen
Collapse(s) ==
  LET marked == [k \in 1..Len(s) |->
                   IF IsAlnum(s[k]) THEN s[k]
                   ELSE IF k = 1 \/ IsAlnum(s[k - 1]) THEN Hyphen ELSE 0]
  IN SelectSeq(marked, LAMBDA c : c # 0)

\* C9: the result of line 7 is its input with every maximal run of
\* characters other than letters and digits replaced by one hyphen, letters
\* and digits kept in place; the empty string gives the empty string.
SlugifierCollapsesRuns ==
  \A p \in Programs :
    sl[p].pc = "ret" =>
      /\ Last(sl[p].rets) = Collapse(sl[p].value)
      /\ SelectSeq(Last(sl[p].rets), IsAlnum) = SelectSeq(sl[p].value, IsAlnum)
      /\ sl[p].value = <<>> => Last(sl[p].rets) = <<>>

SlugifierCollapsesRunsWitness ==
  /\ sl["expressions"].pc = "ret"
  /\ sl["expressions"].value = <<101, Underscore, Hyphen>>
  /\ sl["expressions"].rets = <<(<<101, Hyphen>>)>>

IsMark(c) == c \in 768..879

\* what one character of the input contributes to the normalized text
Contribution(c) ==
  IF IsAscii(c) THEN <<(IF IsUpper(c) THEN c + 32 ELSE c)>>
  ELSE LET dec == NFKDChar(c)
       IN IF Len(dec) > 1 /\ IsAscii(dec[1]) /\ \A k \in 2..Len(dec) : IsMark(dec[k])
          THEN <<(IF IsUpper(dec[1]) THEN dec[1] + 32 ELSE dec[1])>>
          ELSE <<>>

\* C10: the result of line 6 is ASCII without uppercase letters; it is the
\* concatenation of what each input character contributes, and it is empty
\* when no input character contributes.
NormalizerContract ==
  \A p \in Programs :
    sl[p].pc = "line7" =>
      /\ \A k \in 1..Len(sl[p].value) : IsAscii(sl[p].value[k]) /\ ~IsUpper(sl[p].value[k])
      /\ sl[p].value = Flatten([k \in 1..Len(sl[p].arg) |-> Contribution(sl[p].arg[k])])
      /\ (\A k \in 1..Len(sl[p].arg) : ~IsAscii(NFKDChar(sl[p].arg[k])[1]))
           => sl[p].value = <<>>

NormalizerContractWitness ==
  /\ sl["expressions"].pc = "line7"
  /\ sl["expressions"].arg = <<201, 20013, 66>>
  /\ sl["expressions"].value = <<101, 98>>
====
